---- MODULE Spec2Model ----
(***************************************************************************)
(* Model of the Finder Bliss protocol client (pyfinderbliss/client.py).    *)
(*                                                                         *)
(* One BlissClientAsync object is shared by the tasks (coroutines) of the  *)
(* event loop.  A step of the model is the code a coroutine runs from one  *)
(* await to the next; the server and the network are the nondeterministic  *)
(* outcome of every HTTP call and of every receive.                        *)
(***************************************************************************)
EXTENDS Integers, Sequences, FiniteSets, TLC

\* ---------------------------------------------------------------- bounds
\* serverSyncVersion values the server may put in a frame: 0..MaxVer
MaxVer == 2

\* ------------------------------------------------------- program constants
\* send_operation(..., debug_responses: int = 3): the receive attempts of the
\* acknowledgment wait
DebugResponses == 3

\* Setter calls followed between two fetches
MaxSets == 2

\* the arg has no "serverSyncVersion" key
NoVer == -1

\* PyFinderBlissAPI(..., max_retries=3, ...): the fetch attempts of
\* async_get_devices
MaxRetries == 3

\* The uuid4 of client.py:30 takes one of MaxClients + 1 values; a new client
\* never gets the value of the client it replaces.
MaxClients == 1

Versions == 0..MaxVer

Tasks == {1, 2}

\* ------------------------------------------------------------------ frames
\* One segment of a text message, between two record separators:
\*   blank  an empty (whitespace) segment
\*   bad    a segment json.loads rejects
\*   empty  the object {}
\*   ping   an object without "target" (SignalR {"type":6})
\*   inv    an invocation {"type":1,"target":T,"arguments":[arg]}; payload is
\*          the state of arg's "serverPayload" key (absent, null, or a device
\*          payload P), ver the value of arg's "serverSyncVersion" key (NoVer
\*          when the key is absent)
SyncTargets == {"SyncRequest", "SyncResponse"}

PayloadStates == {"absent", "null", "P"}

Seg(k, target, payload, ver) ==
    [k |-> k, target |-> target, payload |-> payload, ver |-> ver]

BlankSeg == Seg("blank", "-", "absent", NoVer)
BadSeg   == Seg("bad", "-", "absent", NoVer)
EmptyObj == Seg("empty", "-", "absent", NoVer)
PingObj  == Seg("ping", "-", "absent", NoVer)

\* The invocations the server sends: SyncRequest with every payload state and
\* version, SyncResponse and another target with a payload and every version.
InvFrames ==
    { Seg("inv", "SyncRequest", p, v) :
        p \in PayloadStates, v \in Versions \cup {NoVer} }
      \cup { Seg("inv", tg, "P", v) :
                tg \in {"SyncResponse", "Other"}, v \in Versions \cup {NoVer} }

Segments == {BlankSeg, BadSeg, EmptyObj, PingObj} \cup InvFrames

\* The second segment of a two-segment message
Followers ==
    {BadSeg, EmptyObj}
      \cup { Seg("inv", "SyncRequest", p, v) :
                p \in {"null", "P"}, v \in Versions \cup {NoVer} }

\* A message as ws.receive() returns it: its type and, for TEXT, the segments
\* of msg.data.  One transport message holds one or two segments.
Msg(type, data) == [type |-> type, data |-> data]

TextMessages ==
    { Msg("TEXT", <<s>>) : s \in Segments }
      \cup { Msg("TEXT", <<s1, s2>>) : s1 \in Segments, s2 \in Followers }

\* The text messages of one segment: the ones the server sends when two tasks
\* share the client.
ShortMessages == { Msg("TEXT", <<s>>) : s \in Segments }

ControlMessages == { Msg(ty, <<>>) : ty \in {"PING", "PONG", "CLOSE"} }

ClosedMessage == Msg("CLOSED", <<>>)

TimeoutOutcome == Msg("TIMEOUT", <<>>)

BusyOutcome == Msg("BUSY", <<>>)

\* ------------------------------------------------------------- frame text
\* The text of a message, character by character.  The characters followed:
\*   RS  the record separator \x1e        sp  a space
\*   0   the digit 0                      q   a double quote
\*   u   the six characters \u001e, the JSON escape of the record separator
\*   {   }  braces
\* A JSON value is the number 0, a string of characters, or the object {};
\* BadValue stands for json.loads raising JSONDecodeError.
JsonValue(t, s) == [t |-> t, s |-> s]

Num0 == JsonValue("num", <<>>)

EmptyObject == JsonValue("obj", <<>>)

BadValue == JsonValue("bad", <<>>)

NoValue == JsonValue("none", <<>>)

\* The characters of the strings encoded: a space, the record separator.
StrChars == {"sp", "RS"}

JsonValues ==
    {Num0, EmptyObject, JsonValue("str", <<>>)}
      \cup { JsonValue("str", <<a>>) : a \in StrChars }
      \cup { JsonValue("str", <<a, b>>) : a \in StrChars, b \in StrChars }

\* json.dumps(x) (client.py:146, 164, 207, 284): control characters inside a
\* string are written as \uXXXX escapes.
json_dumps_raw(x) ==
    CASE x.t = "num" -> <<"0">>
      [] x.t = "obj" -> <<"{", "}">>
      [] OTHER -> <<"q">> \o x.s \o <<"q">>

json_dumps(x) ==
    CASE x.t = "num" -> <<"0">>
      [] x.t = "obj" -> <<"{", "}">>
      [] OTHER ->
            <<"q">>
              \o [i \in 1..Len(x.s) |-> IF x.s[i] = "RS" THEN "u" ELSE x.s[i]]
              \o <<"q">>

\* An outbound message: json.dumps(...) + "\x1e" (client.py:146, 164, 207,
\* 284).
Encode(x) == json_dumps(x) \o <<"RS">>

\* str.strip(): the text without its leading and trailing whitespace.
Strip(text) ==
    LET ink == { i \in 1..Len(text) : text[i] # "sp" } IN
    IF ink = {} THEN <<>>
    ELSE SubSeq(text, CHOOSE i \in ink : \A k \in ink : i <= k,
                      CHOOSE i \in ink : \A k \in ink : i >= k)

\* json.loads(frame) (client.py:112): whitespace around the value is allowed;
\* a string may hold no raw control character and no bare quote.
json_loads(text) ==
    LET c == Strip(text)
        n == Len(c)
    IN IF c = <<"0">> THEN Num0
       ELSE IF n >= 2 /\ c[1] = "{" /\ c[n] = "}"
                 /\ \A i \in 2..(n - 1) : c[i] = "sp"
       THEN EmptyObject
       ELSE IF n >= 2 /\ c[1] = "q" /\ c[n] = "q"
                 /\ \A i \in 2..(n - 1) : c[i] \notin {"q", "RS"}
       THEN JsonValue("str", [i \in 1..(n - 2) |->
                                 IF c[i + 1] = "u" THEN "RS" ELSE c[i + 1]])
       ELSE BadValue

\* msg.data.split("\x1e") (client.py:105)
RECURSIVE Split(_)
Split(text) ==
    LET seps == { i \in 1..Len(text) : text[i] = "RS" } IN
    IF seps = {} THEN <<text>>
    ELSE LET i == CHOOSE j \in seps : \A k \in seps : j <= k
         IN <<SubSeq(text, 1, i - 1)>> \o Split(SubSeq(text, i + 1, Len(text)))

\* The body of _handle_message's loop for one segment (client.py:106-115):
\* what it appends to parsed_frames.
ParsedKeepingBad(frame) ==
    IF Strip(frame) = <<>> THEN <<>> ELSE <<json_loads(frame)>>

Parsed(frame) ==
    IF Strip(frame) = <<>> THEN <<>>
    ELSE IF json_loads(frame) = BadValue THEN <<>>
    ELSE <<json_loads(frame)>>

\* parsed_frames after the loop over these segments (client.py:104-116).
RECURSIVE ParsedFrames(_)
ParsedFrames(frames) ==
    IF frames = <<>> THEN <<>>
    ELSE Parsed(Head(frames)) \o ParsedFrames(Tail(frames))

\* _handle_message for the data of a TEXT message (client.py:103-116).
HandleText(text) == ParsedFrames(Split(text))

\* The segments a server puts in a text message, each with the value it
\* spells: BadValue for text that is not JSON, NoValue for an empty or blank
\* segment.
Spelled(text, val) == [text |-> text, val |-> val]

SegmentTexts ==
    {Spelled(<<>>, NoValue), Spelled(<<"sp">>, NoValue),
     Spelled(<<"0">>, Num0), Spelled(<<"sp", "0">>, Num0),
     Spelled(<<"{", "sp", "}">>, EmptyObject),
     Spelled(<<"q", "u", "q">>, JsonValue("str", <<"RS">>)),
     Spelled(<<"q">>, BadValue), Spelled(<<"0", "0">>, BadValue)}

\* Messages of up to MaxSegs segments.
MaxSegs == 3

SegmentLists ==
    UNION { [1..n -> SegmentTexts] : n \in 1..MaxSegs }

\* The text of a message with these segments, each followed by the record
\* separator.
RECURSIVE Joined(_)
Joined(segs) ==
    IF segs = <<>> THEN <<>>
    ELSE Head(segs).text \o <<"RS">> \o Joined(Tail(segs))

\* x     the value a client encodes (NoValue: none)
\* segs  the segments of the message a server sends (<<>>: none)
\* text  the text of the message
\* out   what _handle_message returned for it
\* done  _handle_message has returned
NoCodec ==
    [x |-> NoValue, segs |-> <<>>, text |-> <<>>, out |-> <<>>,
     done |-> FALSE]

\* ----------------------------------------------------------------- devices
\* A JSON key that is absent, and the JSON value null.
AbsentKey == -1

JsonNull == -2

\* parse_set_point's "N/A" (device_parser.py:157)
NotAvailable == -3

\* set_mode's modes (pyfinderbliss_wrapper.py:55-60)
NonManualModes == {"AUTO", "OFF", "FROST", "ECO"}

Modes == NonManualModes \cup {"MANUAL"}

\* The models set_mode edits the primary object of
\* (pyfinderbliss_wrapper.py:53)
FamilyB == {"BLISS2", "BLISS-HA"}

\* The tags parse_device_data lets through (device_parser.py:8)
Tags == {"BLISS1", "BLISS2"}

\* The "primary" key of a settings object: absent, null, or an object with a
\* mode, a manualSetPoint value in tenths of a degree (or absent, or null) and
\* possibly one more key.
Primary(kind, mode, msp, extra) ==
    [kind |-> kind, mode |-> mode, msp |-> msp, extra |-> extra]

NoPrimary == Primary("absent", "-", AbsentKey, FALSE)

NullPrimary == Primary("null", "-", AbsentKey, FALSE)

Primaries ==
    {NoPrimary, NullPrimary, Primary("obj", "AUTO", AbsentKey, FALSE),
     Primary("obj", "AUTO", JsonNull, FALSE),
     Primary("obj", "AUTO", 200, FALSE), Primary("obj", "AUTO", 200, TRUE)}

\* The "settings" value of a device: a string json.loads rejects ("bad"), the
\* JSON text null, or a JSON object with its primary, with or without a
\* manualTimer key (timer) and with or without one more key (other).  fmt is
\* the spelling of the text: "raw" as the server wrote it, "compact" as
\* json.dumps(..., separators=(',', ':')) writes it.
Settings(kind, primary, timer, other) ==
    [kind |-> kind, primary |-> primary, timer |-> timer, other |-> other,
     fmt |-> "raw"]

\* json.dumps(settings_dict, separators=(',', ':'))
\* (pyfinderbliss_wrapper.py:78, 153)
Dumps(settings) == [settings EXCEPT !.fmt = "compact"]

\* `if "manualTimer" in settings_dict: del settings_dict["manualTimer"]`
\* (pyfinderbliss_wrapper.py:73-74, 148-149)
KeepTimer(settings) == settings

WithoutTimer(settings) == [settings EXCEPT !.timer = FALSE]

BadSettings == Settings("bad", NoPrimary, FALSE, FALSE)

NullSettings == Settings("null", NoPrimary, FALSE, FALSE)

EmptySettings == Settings("obj", NoPrimary, FALSE, FALSE)

SettingsValues ==
    {BadSettings, NullSettings}
      \cup { Settings("obj", p, x, x) : p \in Primaries, x \in BOOLEAN }

\* The "measures" string of a device: its mode code and its setPoint in tenths
\* of a degree (or no setPoint key).
MeasuresValues ==
    {[mode |-> 1, sp |-> 215], [mode |-> 3, sp |-> 0],
     [mode |-> 7, sp |-> AbsentKey]}

\* The "serialNumber" of a device of the payload: a string, or no such key.
Serials == {"SN1", "absent"}

\* A device of the server's payload; its "name" is "Living".  The devices
\* without a serial number are drawn with one settings value.
ServerDevices ==
    { sd \in [tag : Tags, handle : {1}, serial : Serials,
              settings : SettingsValues, measures : MeasuresValues] :
        sd.serial = "absent" => sd.settings = EmptySettings }

\* determine_bliss2_mode (device_parser.py:28-37)
determine_bliss2_mode(measures) ==
    CASE measures.mode \in {0, 2} -> "OFF"
      [] measures.mode = 1 -> "AUTO"
      [] measures.mode = 3 -> "MANUAL"
      [] OTHER -> "UNKNOWN"

\* determine_bliss1_mode (device_parser.py:14-25) of settings without a
\* "mode" and a "manualSchedule" key: mode OFF, isOn False.
determine_bliss1_mode(settings) == "off"

\* parse_set_point (device_parser.py:148-157): tenths of a degree to degrees,
\* kept here in hundredths of a degree; "N/A" without a number.
parse_set_point(sp) == IF sp = AbsentKey THEN NotAvailable ELSE sp * 10

\* parse_device raises (device_parser.py:65-90): safe_json_load gives None for
\* the text null, on which .get fails; for BLISS2 a null primary has no .get.
ParseFails(sd) ==
    \/ sd.settings.kind = "null"
    \/ sd.tag = "BLISS2" /\ sd.settings.kind = "obj"
         /\ sd.settings.primary.kind = "null"

\* parse_device and BlissDevice.__init__ (device_parser.py:42-120,
\* pyfinderbliss_wrapper.py:7-34): the raw strings are kept as received.
BlissDevice(sd) ==
    [model |-> sd.tag, handle |-> sd.handle,
     serial_number |-> IF sd.serial = "absent" THEN "Unknown" ELSE sd.serial,
     name |-> "Living", settings |-> sd.settings,
     measures |-> sd.measures,
     set_point |-> parse_set_point(sd.measures.sp),
     mode |-> IF sd.tag = "BLISS2" THEN determine_bliss2_mode(sd.measures)
              ELSE determine_bliss1_mode(sd.settings)]

NoServerDevice ==
    [tag |-> "-", handle |-> 0, serial |-> "absent", settings |-> BadSettings,
     measures |-> [mode |-> 0, sp |-> AbsentKey]]

NoDevice == [BlissDevice(NoServerDevice) EXCEPT !.model = "-"]

\* _find_device_by_serial (pyfinderbliss_wrapper.py:267-274) on the cached
\* device: getattr(d, 'serial_number', getattr(d, 'name')) == serial, where
\* every BlissDevice has the attribute serial_number (line 19).
find_device_by_serial(d, serial) == d.serial_number = serial

\* mode.upper() (pyfinderbliss_wrapper.py:42)
Upper(mode) == IF mode = "manual" THEN "MANUAL" ELSE mode

\* int((self.set_point or 18.0) * 10) (pyfinderbliss_wrapper.py:64), for a
\* set_point that is a number: degrees to tenths, 18.0 for 0.
FallbackSetPoint(set_point) ==
    IF set_point = 0 THEN 180 ELSE set_point \div 10

\* set_mode up to the device object (pyfinderbliss_wrapper.py:50-69): the
\* exception it raises, "-" when it raises none.
SetModeError(d, mode) ==
    IF d.settings.kind = "bad" THEN "JSONDecodeError"
    ELSE IF d.settings.kind = "null" THEN "TypeError"
    ELSE IF d.model \notin FamilyB THEN "-"
    ELSE IF mode \in NonManualModes THEN "-"
    ELSE IF mode # "MANUAL" THEN "UnsupportedMode"
    ELSE IF d.settings.primary.kind = "absent" THEN "KeyError"
    ELSE IF d.settings.primary.kind = "null" THEN "AttributeError"
    ELSE IF d.settings.primary.msp \in {AbsentKey, JsonNull}
              /\ d.set_point = NotAvailable THEN "ValueError"
    ELSE "-"

\* The settings set_mode serializes when it does not raise
\* (pyfinderbliss_wrapper.py:53-78).
SetModeSettingsMerging(d, mode) ==
    LET old == d.settings.primary
        primary ==
            IF d.model \notin FamilyB THEN old
            ELSE IF mode \in NonManualModes
            THEN IF old.kind = "obj"
                 THEN [old EXCEPT !.mode = mode, !.msp = JsonNull]
                 ELSE Primary("obj", mode, JsonNull, FALSE)
            ELSE [old EXCEPT !.mode = mode,
                             !.msp = IF @ \in {AbsentKey, JsonNull}
                                     THEN FallbackSetPoint(d.set_point)
                                     ELSE @]
    IN Dumps(WithoutTimer([d.settings EXCEPT !.primary = primary]))

SetModeSettings(d, mode) ==
    LET old == d.settings.primary
        primary ==
            IF d.model \notin FamilyB THEN old
            ELSE IF mode \in NonManualModes
            THEN Primary("obj", mode, JsonNull, FALSE)
            ELSE [old EXCEPT !.mode = mode,
                             !.msp = IF @ \in {AbsentKey, JsonNull}
                                     THEN FallbackSetPoint(d.set_point)
                                     ELSE @]
    IN Dumps(WithoutTimer([d.settings EXCEPT !.primary = primary]))

\* set_setpoint up to the device object (pyfinderbliss_wrapper.py:126-143):
\* a string json.loads rejects becomes {}; the exception it raises otherwise.
SetSetpointError(d) ==
    IF d.settings.kind = "null" THEN "TypeError"
    ELSE IF d.settings.kind = "obj" /\ d.settings.primary.kind = "null"
    THEN "TypeError"
    ELSE "-"

\* int(value * 10) (pyfinderbliss_wrapper.py:132), value in hundredths of a
\* degree.
TargetValue(value) == value \div 10

\* The settings set_setpoint serializes when it does not raise
\* (pyfinderbliss_wrapper.py:126-153).
SetSetpointSettingsAdding(d, value) ==
    LET base == IF d.settings.kind = "bad" THEN EmptySettings ELSE d.settings
        old == IF base.primary.kind = "obj" THEN base.primary
               ELSE Primary("obj", "-", AbsentKey, FALSE)
    IN Dumps(WithoutTimer([base EXCEPT
                !.primary = [old EXCEPT
                    !.mode = "MANUAL",
                    !.msp = (IF @ \in {AbsentKey, JsonNull} THEN 0 ELSE @)
                              + TargetValue(value)]]))

SetSetpointSettings(d, value) ==
    LET base == IF d.settings.kind = "bad" THEN EmptySettings ELSE d.settings
        old == IF base.primary.kind = "obj" THEN base.primary
               ELSE Primary("obj", "-", AbsentKey, FALSE)
    IN Dumps(WithoutTimer(
           [base EXCEPT !.primary = [old EXCEPT !.mode = "MANUAL",
                                                !.msp = TargetValue(value)]]))

\* device_data_to_send (pyfinderbliss_wrapper.py:81-105, 156-172)
DeviceObject(d, settings) ==
    [handle |-> d.handle, settings |-> settings, measures |-> d.measures,
     status |-> "PENDING", syncVersion |-> 0]

NoObject == [DeviceObject(NoDevice, BadSettings) EXCEPT !.status = "-"]

\* srv       the device as the server holds it
\* cache     the BlissDevice in self._devices
\* sent      history: the device object of the call's active sync, if any
\* lastSync  history: the measures of the last passive-sync payload received
\* mode      history: the mode given to the last set_mode
\* value     history: the value given to the last set_setpoint, in hundredths
\*           of a degree
\* rep       history: the last setter call repeated the call before it (same
\*           setter, same argument), which had sent its device object
\* key       history: the device_serial given to the last lookup
\* nSet      history: the setter calls made since the last fetch
NoDevices ==
    [srv |-> NoServerDevice, cache |-> NoDevice, sent |-> NoObject,
     lastSync |-> NoServerDevice.measures, mode |-> "-", value |-> 0,
     rep |-> FALSE, key |-> "-", nSet |-> 0]

\* ------------------------------------------------------------------- state
VARIABLES
    procs,      \* the tasks that call into the client
    token,      \* self._token is set
    ws,         \* self._ws: "none", "open" or "closed" (self._ws.closed)
    lastVer,    \* self._last_server_sync_version
    pc,         \* per task: the await it is suspended at, or "idle"
    stk,        \* per task: the labels its callers resume at
    op,         \* per task: the operation its caller invoked last
    res,        \* per task: how the last call ended ("ok" or the exception)
    retv,       \* per task: the value the last call returned
    loc,        \* per task: the locals of the running operation, and its history
    acked,      \* history: the init ack was received on the current socket
    lastSeen,   \* history: serverSyncVersion of the last frame that carried one
    api,        \* the PyFinderBlissAPI object that owns the client
    sentIds     \* history: the clientIds of the InitRequests and SyncRequests sent

vars == <<procs, token, ws, lastVer, pc, stk, op, res, retv, loc, acked,
          lastSeen, api, sentIds>>

\* i                     the i of send_operation's for i in range(debug_responses)
\* new_version_received  send_operation's flag
\* connection_id         negotiation.get("connectionId") is not None
\* callVer    history: lastVer when get_devices / send_operation was entered
\* callReady  history: the session was Ready when the operation was invoked
\* nActive    history: ACTIVE requests sent by the operation
\* nPassive   history: SYNC requests sent by the operation
\* req        history: the last SyncRequest it sent: its status, its
\*            clientSyncVersion, lastSeen and acked when it was sent
\* rx         history: the wait and the type of the last message it received,
\*            and its segments when the facade record asks for them (rec)
\* attempt    the attempt of async_get_devices' for attempt in range(...)
\* nFetch     history: client.get_devices() calls made by async_get_devices
\* nReauth    history: _async_ensure_authenticated calls made after a failed
\*            attempt
\* prevErr    history: how the previous attempt failed ("-" before any has)
\* entryWs    history: ws when the current attempt entered get_devices
\* loginFailed  history: a _login of this facade call has raised
\* eaAlive    history: the client had a token and a Ready socket when
\*            _async_ensure_authenticated was entered last
\* refreshed  history: the get_devices of send_operation's refresh returned
\*            devices
NoRequest == [status |-> "-", csv |-> 0, seen |-> 0, acked |-> FALSE]

NoReceive == [at |-> "-", type |-> "-", data |-> <<>>]

NoLocals ==
    [i |-> 0, new_version_received |-> FALSE, connection_id |-> FALSE,
     callVer |-> 0, callReady |-> FALSE, nActive |-> 0, nPassive |-> 0,
     req |-> NoRequest, rx |-> NoReceive,
     attempt |-> 0, nFetch |-> 0, nReauth |-> 0, prevErr |-> "-",
     entryWs |-> "-", loginFailed |-> FALSE, eaAlive |-> FALSE,
     refreshed |-> FALSE, owed |-> FALSE, late |-> FALSE]

\* PyFinderBlissAPI.__init__ (pyfinderbliss_wrapper.py:182-188) and the
\* client it creates (client.py:30):
\*   clientId  self._client._client_id, a uuid4: one value per client object
\*   cache     self._devices: "empty", "server" (the devices as get_devices
\*             parsed them) or "optimistic" (a device's settings were
\*             overwritten by set_mode / set_setpoint)
\*   bound     the cached devices' _client is the current self._client
\*   made      the client is owned by a PyFinderBlissAPI (FALSE: the tasks
\*             call the client themselves)
\*   devices   the cached device and the server's, with their history
\*   rec       history switch: the segments of the messages get_devices
\*             receives are recorded
\*   codec     the message text being encoded and decoded
NoApi ==
    [clientId |-> 0, cache |-> "empty", bound |-> FALSE, made |-> FALSE,
     devices |-> NoDevices, rec |-> FALSE, codec |-> NoCodec]

NewApi == [NoApi EXCEPT !.made = TRUE]

\* The clientIds sent once the current client has sent a request
\* (client.py:156, 193, 272).
Sent == sentIds \cup {api.clientId}

\* The session is Ready: an open socket whose InitRequest was acknowledged.
Ready == ws = "open" /\ acked

\* __init__ (client.py:25-33): no token, no socket, version 0.
InitWith(P, A) ==
    /\ procs = P
    /\ token = FALSE
    /\ ws = "none"
    /\ lastVer = 0
    /\ pc = [t \in Tasks |-> "idle"]
    /\ stk = [t \in Tasks |-> <<>>]
    /\ op = [t \in Tasks |-> "none"]
    /\ res = [t \in Tasks |-> "ok"]
    /\ retv = [t \in Tasks |-> "-"]
    /\ loc = [t \in Tasks |-> NoLocals]
    /\ acked = FALSE
    /\ lastSeen = 0
    /\ api = A
    /\ sentIds = {}

Init == InitWith({1}, NoApi)

InitConc == InitWith(Tasks, NoApi)

InitApi == InitWith({1}, NewApi)

\* One caller of the client, the messages it receives recorded.
InitSync == InitWith({1}, [NoApi EXCEPT !.rec = TRUE])

\* ----------------------------------------------------------- frame decoding
\* _handle_message, TEXT branch: split on the record separator, skip the
\* segments that are blank, drop the ones json.loads rejects, keep the order.
Decode(data) == SelectSeq(data, LAMBDA s : s.k \notin {"blank", "bad"})

\* _handle_message: the frames of a TEXT message, [] for PING, PONG and every
\* other type (CLOSED, ERROR); a CLOSE message raises ConnectionResetError.
HandleMessage(m) == IF m.type = "TEXT" THEN Decode(m.data) ELSE <<>>

\* get_devices' scan: a frame whose target is SyncRequest/SyncResponse and
\* whose arg has a serverPayload that is not None.
IsPayloadFrameAnyTarget(f) ==
    f.k = "inv" /\ f.payload \notin {"absent", "null"}

IsPayloadFrame(f) ==
    f.k = "inv" /\ f.target \in SyncTargets /\ f.payload \notin {"absent", "null"}

\* send_operation's scan: a frame whose target is SyncRequest/SyncResponse and
\* whose arg has a serverSyncVersion key.
IsAckFrame(f) == f.k = "inv" /\ f.target \in SyncTargets /\ f.ver # NoVer

\* The indices of the frames each scan stops at.
PayloadHits(frames) == { n \in 1..Len(frames) : IsPayloadFrame(frames[n]) }

AckHits(frames) == { n \in 1..Len(frames) : IsAckFrame(frames[n]) }

\* The first of these indices (the loops return / break at the first hit), 0
\* when there is none.
FirstHit(hits) ==
    IF hits = {} THEN 0 ELSE CHOOSE n \in hits : \A k \in hits : n <= k

\* arg.get("serverSyncVersion", 0)
VersionOrZero(f) == IF f.ver = NoVer THEN 0 ELSE f.ver

\* History: the version of the last frame of the message that carries one.
Carried(frames, old) ==
    IF \E n \in 1..Len(frames) : frames[n].ver # NoVer
    THEN frames[CHOOSE n \in 1..Len(frames) :
                   frames[n].ver # NoVer
                   /\ \A k \in (n + 1)..Len(frames) : frames[k].ver = NoVer].ver
    ELSE old

\* What `await self._ws.receive()` can give task t.  An open socket gives a
\* text message, a PING, PONG or CLOSE message, or nothing within the wait; a
\* closed socket gives the CLOSED message at once.  A receive() entered while
\* another task is suspended in receive() raises RuntimeError.
AtReceive(t) == pc[t] \in {"cw_wait", "gd_recv", "so_wait"}

RecvOutcomes(t) ==
    (IF ws = "open"
     THEN (IF Cardinality(procs) = 1 THEN TextMessages ELSE ShortMessages)
            \cup ControlMessages \cup {TimeoutOutcome}
     ELSE {ClosedMessage})
    \cup (IF \E u \in procs \ {t} : AtReceive(u) THEN {BusyOutcome} ELSE {})

\* aiohttp closes the socket when it hands out a CLOSE message (autoclose).
WsAfter(m) == IF m.type = "CLOSE" THEN "closed" ELSE ws


\* ------------------------------------------------------- calls and returns
\* The client's history is recorded when a single task calls the client
\* itself; with two tasks, and under the facade, its fields keep their initial
\* values.
Recording == Cardinality(procs) = 1 /\ ~api.made

Track(L) ==
    IF Recording THEN L
    ELSE [L EXCEPT !.callVer = 0, !.callReady = FALSE, !.nActive = 0,
                   !.nPassive = 0, !.req = NoRequest, !.rx = NoReceive]

\* The locals of an operation that has ended are dead; their last values are
\* part of the history.
Kept(L) == IF Recording \/ api.made THEN L ELSE NoLocals

\* History: lastSeen after a message with these frames.
Seen(frames) == IF Recording THEN Carried(frames, lastSeen) ELSE lastSeen

\* A coroutine that returns or raises resumes its caller: the label on top of
\* the task's stack, or the external caller when the stack is empty.  r is
\* "ok" or the exception, v the value returned, L the task's locals.
Return(t, r, v, L) ==
    /\ pc' = [pc EXCEPT ![t] = IF stk[t] = <<>> THEN "idle" ELSE Head(stk[t])]
    /\ stk' = [stk EXCEPT ![t] = IF stk[t] = <<>> THEN <<>> ELSE Tail(stk[t])]
    /\ res' = [res EXCEPT ![t] = r]
    /\ retv' = [retv EXCEPT ![t] = v]
    /\ loc' = [loc EXCEPT ![t] = IF stk[t] = <<>> THEN Kept(L) ELSE L]

\* The clientSyncVersion field of the ACTIVE SyncRequest (client.py:275).
ActiveClientSyncVersion == lastVer

\* The ACTIVE SyncRequest of send_operation (client.py:268-286).
SentActive(L) ==
    Track([L EXCEPT !.nActive = @ + 1,
                    !.req = [status |-> "ACTIVE",
                             csv |-> ActiveClientSyncVersion,
                             seen |-> lastSeen, acked |-> acked]])

\* The passive SyncRequest of get_devices (client.py:188-209): status SYNC,
\* clientSyncVersion 0.  seen and isAcked are lastSeen and acked as the step
\* leaves them.
SentPassive(L, seen, isAcked) ==
    Track([L EXCEPT !.nPassive = @ + 1,
                    !.req = [status |-> "SYNC", csv |-> 0, seen |-> seen,
                             acked |-> isAcked]])

\* get_devices up to its first await (client.py:185-213), entered by task t
\* with `ret` the labels of its callers, `ver` the tracked version and L the
\* task's locals: with no open socket it awaits connect_ws, which logs in first
\* when it has no token (client.py:130-134); otherwise it sends the
\* SyncRequest and waits.
EnterGetDevices(t, ret, ver, seen, L) ==
    /\ res' = [res EXCEPT ![t] = "ok"]
    /\ IF ws # "open"
       THEN /\ pc' = [pc EXCEPT ![t] = IF token THEN "cw_negotiate" ELSE "login"]
            /\ stk' = [stk EXCEPT ![t] =
                          (IF token THEN <<>> ELSE <<"cw_negotiate">>)
                              \o <<"gd_after_connect">> \o ret]
            /\ loc' = [loc EXCEPT ![t] = Track([L EXCEPT !.callVer = ver])]
            /\ sentIds' = sentIds
       ELSE /\ pc' = [pc EXCEPT ![t] = "gd_recv"]
            /\ stk' = [stk EXCEPT ![t] = ret]
            /\ loc' = [loc EXCEPT ![t] =
                          Track(SentPassive([L EXCEPT !.callVer = ver],
                                            seen, acked))]
            /\ sentIds' = Sent

\* History: as task t's next call starts, the server still owes the answer to
\* a request of t's last call on the socket that is still open: a passive
\* sync whose receive timed out (client.py:213, 232-233) or an active sync
\* whose acknowledgment wait ended without an acknowledgment
\* (client.py:290-316).  Requests carry no id the answer could be matched by
\* (client.py:193).
AnswerOwed(t) ==
    /\ Recording /\ ~api.rec
    /\ ws = "open"
    /\ \/ loc[t].rx.at = "gd_recv" /\ loc[t].rx.type = "TIMEOUT"
       \/ /\ op[t] = "send_operation" /\ res[t] = "ok"
          /\ ~loc[t].new_version_received
          /\ loc[t].rx.at = "so_wait"

\* ------------------------------------------------------------- operations
\* A caller invokes client.get_devices().
CallGetDevices(t) ==
    /\ t \in procs /\ pc[t] = "idle"
    /\ op' = [op EXCEPT ![t] = "get_devices"]
    /\ retv' = [retv EXCEPT ![t] = "-"]
    /\ EnterGetDevices(t, <<>>, lastVer, lastSeen,
                       [NoLocals EXCEPT !.callReady = Ready,
                                        !.owed = AnswerOwed(t)])
    /\ UNCHANGED <<procs, token, ws, lastVer, acked, lastSeen, api>>

\* A caller invokes client.send_operation(device_data) (client.py:247-286):
\* RuntimeError without an open socket, else the ACTIVE SyncRequest is sent
\* and the acknowledgment wait starts.
CallSendOperation(t) ==
    /\ t \in procs /\ pc[t] = "idle"
    /\ op' = [op EXCEPT ![t] = "send_operation"]
    /\ retv' = [retv EXCEPT ![t] = "-"]
    /\ LET L == [NoLocals EXCEPT !.callReady = Ready, !.callVer = lastVer] IN
       IF ws # "open"
       THEN /\ res' = [res EXCEPT ![t] = "NotConnected"]
            /\ loc' = [loc EXCEPT ![t] = Kept(L)]
            /\ pc' = pc
            /\ sentIds' = sentIds
       ELSE /\ res' = [res EXCEPT ![t] = "ok"]
            /\ pc' = [pc EXCEPT ![t] = "so_wait"]
            /\ loc' = [loc EXCEPT ![t] = SentActive(L)]
            /\ sentIds' = Sent
    /\ UNCHANGED <<procs, token, ws, lastVer, stk, acked, lastSeen, api>>

\* _login (client.py:58-82): the token POST answers with a status other than
\* 200 (raise), with 200 and no access_token (self._token = None, raise), or
\* with a token.
LoginOutcomes == {"token", "no_token", "bad_status"}

Login(t) ==
    /\ pc[t] = "login"
    /\ \E o \in LoginOutcomes :
        /\ token' = (IF o = "bad_status" THEN token ELSE o = "token")
        /\ Return(t, IF o = "token" THEN "ok" ELSE "LoginFailed", "-", loc[t])
    /\ UNCHANGED <<procs, ws, lastVer, op, acked, lastSeen, api, sentIds>>

\* connect_ws after its login, _negotiate (client.py:84-95, 134-135): a login
\* error propagates; the negotiate POST answers with a status other than 200
\* (raise) or with a JSON object that has, or has not, a connectionId.
NegotiateOutcomes == {"bad_status", "id", "no_id"}

CW_Negotiate(t) ==
    /\ pc[t] = "cw_negotiate"
    /\ \E o \in NegotiateOutcomes :
        IF res[t] # "ok"
        THEN Return(t, res[t], "-", loc[t])
        ELSE IF o = "bad_status"
        THEN Return(t, "NegotiateFailed", "-", loc[t])
        ELSE /\ pc' = [pc EXCEPT ![t] = "cw_connect"]
             /\ loc' = [loc EXCEPT ![t].connection_id = (o = "id")]
             /\ UNCHANGED <<stk, res, retv>>
    /\ UNCHANGED <<procs, token, ws, lastVer, op, acked, lastSeen, api,
                   sentIds>>

\* connect_ws, ws_connect (client.py:136-166): the upgrade fails (raise,
\* self._ws untouched) or gives a new socket, assigned to self._ws, on which
\* the handshake and then the InitRequest are sent.
CW_Connect(t) ==
    /\ pc[t] = "cw_connect"
    /\ \E ok \in BOOLEAN :
        IF ok
        THEN /\ ws' = "open"
             /\ acked' = FALSE
             /\ pc' = [pc EXCEPT ![t] = "cw_wait"]
             /\ loc' = [loc EXCEPT ![t].connection_id = FALSE]
             /\ sentIds' = Sent
             /\ UNCHANGED <<stk, res, retv>>
        ELSE /\ Return(t, "ConnectFailed", "-",
                       [loc[t] EXCEPT !.connection_id = FALSE])
             /\ UNCHANGED <<ws, acked, sentIds>>
    /\ UNCHANGED <<procs, token, lastVer, op, lastSeen, api>>

\* connect_ws, the wait for the init acknowledgment (client.py:168-178): one
\* receive.  A frame equal to {} ends the wait, and get_devices, the caller,
\* goes on to send its SyncRequest (client.py:188-209); asyncio.TimeoutError
\* becomes an Exception; the ConnectionResetError of a CLOSE message
\* propagates; every other message (also CLOSED) is followed by a receive.
Received(at, m) ==
    IF Recording
    THEN [at |-> at, type |-> m.type,
          data |-> IF api.rec /\ at = "gd_recv" THEN m.data ELSE <<>>]
    ELSE NoReceive

IsInitAck(frames) == \E n \in 1..Len(frames) : frames[n] = EmptyObj

CW_Wait(t) ==
    /\ pc[t] = "cw_wait"
    /\ \E m \in RecvOutcomes(t) :
        LET frames == HandleMessage(m) IN
        /\ ws' = WsAfter(m)
        /\ lastSeen' = Seen(frames)
        /\ IF m.type \in {"BUSY", "TIMEOUT", "CLOSE"}
           THEN /\ Return(t, CASE m.type = "BUSY" -> "RuntimeError"
                               [] m.type = "TIMEOUT" -> "InitTimeout"
                               [] OTHER -> "ConnectionReset", "-",
                          [loc[t] EXCEPT !.rx = Received("cw_wait", m)])
                /\ UNCHANGED <<acked, sentIds>>
           ELSE IF IsInitAck(frames)
           THEN /\ acked' = TRUE
                /\ pc' = [pc EXCEPT ![t] = "gd_recv"]
                /\ stk' = [stk EXCEPT ![t] = Tail(stk[t])]
                /\ loc' = [loc EXCEPT ![t] =
                              SentPassive([loc[t] EXCEPT
                                              !.rx = Received("cw_wait", m)],
                                          Carried(frames, lastSeen), TRUE)]
                /\ sentIds' = Sent
                /\ UNCHANGED <<res, retv>>
           ELSE /\ loc' = [loc EXCEPT ![t].rx = Received("cw_wait", m)]
                /\ UNCHANGED <<pc, stk, res, retv, acked, sentIds>>
    /\ UNCHANGED <<procs, token, lastVer, op, api>>

\* get_devices when connect_ws raised (client.py:186): the error propagates.
GD_AfterConnect(t) ==
    /\ pc[t] = "gd_after_connect"
    /\ Return(t, res[t], "-", loc[t])
    /\ UNCHANGED <<procs, token, ws, lastVer, op, acked, lastSeen, api,
                   sentIds>>

\* The tracked version after get_devices has scanned the frames of one
\* message (client.py:216-230): that of the first payload frame, if any.
PassiveVersionEager(frames, old) ==
    IF FirstHit(AckHits(frames)) # 0
    THEN frames[FirstHit(AckHits(frames))].ver
    ELSE old

PassiveVersion(frames, old) ==
    IF FirstHit(PayloadHits(frames)) # 0
    THEN VersionOrZero(frames[FirstHit(PayloadHits(frames))])
    ELSE old

\* get_devices, one receive of its loop (client.py:211-235): the first payload
\* frame sets the tracked version and ends the call with the parsed devices;
\* a timeout and a CLOSE message raise; anything else is followed by a receive.
GD_Recv(t) ==
    /\ pc[t] = "gd_recv"
    /\ \E m \in RecvOutcomes(t) :
        LET frames == HandleMessage(m) IN
        /\ ws' = WsAfter(m)
        /\ lastSeen' = Seen(frames)
        /\ lastVer' = PassiveVersion(frames, lastVer)
        /\ IF m.type \in {"BUSY", "TIMEOUT", "CLOSE"}
           THEN Return(t, CASE m.type = "BUSY" -> "RuntimeError"
                            [] m.type = "TIMEOUT" -> "SyncTimeout"
                            [] OTHER -> "FetchReset", "-",
                       [loc[t] EXCEPT !.rx = Received("gd_recv", m)])
           ELSE IF FirstHit(PayloadHits(frames)) # 0
           THEN \E late \in (IF loc[t].owed THEN BOOLEAN ELSE {FALSE}) :
                    Return(t, "ok", "devices",
                           [loc[t] EXCEPT !.rx = Received("gd_recv", m),
                                          !.late = late])
           ELSE /\ loc' = [loc EXCEPT ![t].rx = Received("gd_recv", m)]
                /\ UNCHANGED <<pc, stk, res, retv>>
    /\ UNCHANGED <<procs, token, op, acked, api, sentIds>>

\* What send_operation returns when it does not raise: the function has no
\* return statement (client.py:238-332), acknowledged or not.
SendOperationResult(was_acked) == "None"

\* send_operation, one receive of the acknowledgment wait (client.py:290-332).
\* The first frame with target SyncRequest/SyncResponse whose arg has a
\* serverSyncVersion sets the tracked version and ends the wait; get_devices
\* is then entered for the refresh, and whatever it raises is swallowed.  A
\* timeout ends the wait (break), a CLOSE message raises, any other message
\* uses up one of the DebugResponses attempts.  Without an acknowledgment the
\* function returns after the wait.
SO_Wait(t) ==
    /\ pc[t] = "so_wait"
    /\ \E m \in RecvOutcomes(t) :
        LET frames == HandleMessage(m)
            n == FirstHit(AckHits(frames))
        IN
        /\ ws' = WsAfter(m)
        /\ lastSeen' = Seen(frames)
        /\ IF m.type \in {"BUSY", "CLOSE"}
           THEN /\ Return(t, IF m.type = "BUSY" THEN "RuntimeError"
                             ELSE "AckReset", "-",
                          [loc[t] EXCEPT !.rx = Received("so_wait", m)])
                /\ UNCHANGED <<lastVer, sentIds>>
           ELSE IF n # 0
           THEN /\ lastVer' = frames[n].ver
                /\ EnterGetDevices(t, <<"so_refresh">> \o stk[t], frames[n].ver,
                       Carried(frames, lastSeen),
                       [loc[t] EXCEPT !.new_version_received = TRUE,
                                      !.rx = Received("so_wait", m)])
                /\ retv' = retv
           ELSE IF m.type = "TIMEOUT" \/ loc[t].i + 1 >= DebugResponses
           THEN /\ Return(t, "ok", SendOperationResult(FALSE),
                          [loc[t] EXCEPT !.rx = Received("so_wait", m)])
                /\ UNCHANGED <<lastVer, sentIds>>
           ELSE /\ loc' = [loc EXCEPT ![t] =
                              [@ EXCEPT !.i = @ + 1,
                                        !.rx = Received("so_wait", m)]]
                /\ UNCHANGED <<pc, stk, res, retv, lastVer, sentIds>>
    /\ UNCHANGED <<procs, token, op, acked, api>>

\* How send_operation ends when its refresh ended as r (client.py:327-332):
\* `except Exception` swallows a failed get_devices.
RefreshResultPropagating(r) == r

RefreshResult(r) == "ok"

\* send_operation after the refresh (client.py:327-332): `except Exception`
\* swallows a failed get_devices, and the function returns.
SO_Refresh(t) ==
    /\ pc[t] = "so_refresh"
    /\ Return(t, RefreshResult(res[t]), SendOperationResult(TRUE),
              [loc[t] EXCEPT !.refreshed = res[t] = "ok"])
    /\ UNCHANGED <<procs, token, ws, lastVer, op, acked, lastSeen, api,
                   sentIds>>

\* The connection is lost: with heartbeat=PING_INTERVAL (client.py:140-142) a
\* missing pong marks the socket closed.
HeartbeatLost ==
    /\ ws = "open"
    /\ ws' = "closed"
    /\ UNCHANGED <<procs, token, lastVer, pc, stk, op, res, retv, loc, acked,
                   lastSeen, api, sentIds>>

Next ==
    \/ \E t \in Tasks :
        \/ CallGetDevices(t)
        \/ CallSendOperation(t)
        \/ Login(t)
        \/ CW_Negotiate(t)
        \/ CW_Connect(t)
        \/ CW_Wait(t)
        \/ GD_AfterConnect(t)
        \/ GD_Recv(t)
        \/ SO_Wait(t)
        \/ SO_Refresh(t)
    \/ HeartbeatLost

\* The passive syncs alone.
NextSync ==
    \/ \E t \in Tasks :
        \/ CallGetDevices(t)
        \/ Login(t)
        \/ CW_Negotiate(t)
        \/ CW_Connect(t)
        \/ CW_Wait(t)
        \/ GD_AfterConnect(t)
        \/ GD_Recv(t)
    \/ HeartbeatLost

\* ------------------------------------------------------------------ facade
\* _async_ensure_authenticated up to its first await
\* (pyfinderbliss_wrapper.py:190-203), entered by task t with `ret` the labels
\* of its callers: BlissClientAsync has no is_logged_in attribute
\* (client.py:20-33), so the hasattr test is false and _login is awaited.
EnterEnsure(t, ret, L) ==
    /\ pc' = [pc EXCEPT ![t] = "login"]
    /\ stk' = [stk EXCEPT ![t] = <<"ea_after_login">> \o ret]
    /\ loc' = [loc EXCEPT ![t] = [L EXCEPT !.eaAlive = token /\ Ready]]

\* A caller invokes async_setup (pyfinderbliss_wrapper.py:215-217).
CallAsyncSetup(t) ==
    /\ t \in procs /\ pc[t] = "idle"
    /\ op' = [op EXCEPT ![t] = "async_setup"]
    /\ EnterEnsure(t, <<"api_setup_ret">>, NoLocals)
    /\ UNCHANGED <<procs, token, ws, lastVer, res, retv, acked, lastSeen, api,
                   sentIds>>

\* A caller invokes async_get_devices (pyfinderbliss_wrapper.py:237-239).
CallAsyncGetDevices(t) ==
    /\ t \in procs /\ pc[t] = "idle"
    /\ op' = [op EXCEPT ![t] = "async_get_devices"]
    /\ EnterEnsure(t, <<"api_gd_loop">>, NoLocals)
    /\ UNCHANGED <<procs, token, ws, lastVer, res, retv, acked, lastSeen, api,
                   sentIds>>

\* A caller invokes async_set_mode or async_set_temperature
\* (pyfinderbliss_wrapper.py:277-280, 289-292).
SetOps == {"async_set_mode", "async_set_temperature"}

CallAsyncSet(t) ==
    /\ t \in procs /\ pc[t] = "idle"
    /\ \E o \in SetOps : op' = [op EXCEPT ![t] = o]
    /\ EnterEnsure(t, <<"api_set_send">>, NoLocals)
    /\ UNCHANGED <<procs, token, ws, lastVer, res, retv, acked, lastSeen, api,
                   sentIds>>

\* _async_ensure_authenticated after its first _login
\* (pyfinderbliss_wrapper.py:203-213): done when it succeeded; when it raised,
\* the client is closed and replaced by a new BlissClientAsync (no token, no
\* socket, version 0, a new uuid4), whose _login is awaited.
EA_AfterLogin(t) ==
    /\ pc[t] = "ea_after_login"
    /\ IF res[t] = "ok"
       THEN /\ Return(t, "ok", "-", loc[t])
            /\ UNCHANGED <<token, ws, lastVer, acked, lastSeen, api>>
       ELSE /\ token' = FALSE
            /\ ws' = "none"
            /\ lastVer' = 0
            /\ acked' = FALSE
            /\ lastSeen' = 0
            /\ api' = [api EXCEPT !.clientId = (@ + 1) % (MaxClients + 1),
                                  !.bound = FALSE]
            /\ pc' = [pc EXCEPT ![t] = "login"]
            /\ stk' = [stk EXCEPT ![t] = <<"ea_after_relogin">> \o @]
            /\ loc' = [loc EXCEPT ![t].loginFailed = TRUE]
            /\ UNCHANGED <<res, retv>>
    /\ UNCHANGED <<procs, op, sentIds>>

\* _async_ensure_authenticated after the new client's _login
\* (pyfinderbliss_wrapper.py:213): it returns, or the error propagates.
EA_AfterRelogin(t) ==
    /\ pc[t] = "ea_after_relogin"
    /\ Return(t, res[t], "-", loc[t])
    /\ UNCHANGED <<procs, token, ws, lastVer, op, acked, lastSeen, api,
                   sentIds>>

\* async_setup after _async_ensure_authenticated.
Api_SetupRet(t) ==
    /\ pc[t] = "api_setup_ret"
    /\ Return(t, res[t], "-", loc[t])
    /\ UNCHANGED <<procs, token, ws, lastVer, op, acked, lastSeen, api,
                   sentIds>>

\* async_get_devices after an _async_ensure_authenticated
\* (pyfinderbliss_wrapper.py:239-243, 257-259): its error propagates, before
\* the loop and out of the except block alike; otherwise the attempt calls
\* client.get_devices().
Api_GdLoop(t) ==
    /\ pc[t] = "api_gd_loop"
    /\ IF res[t] # "ok"
       THEN /\ Return(t, res[t], "-", loc[t])
            /\ sentIds' = sentIds
       ELSE /\ EnterGetDevices(t, <<"api_gd_ret">> \o stk[t], lastVer, lastSeen,
                               [loc[t] EXCEPT !.nFetch = @ + 1,
                                              !.entryWs = ws])
            /\ retv' = retv
    /\ UNCHANGED <<procs, token, ws, lastVer, op, acked, lastSeen, api>>

\* The test of pyfinderbliss_wrapper.py:256: re-authenticate and go on.
ReauthAlways(attempt) == TRUE

ReauthAfter(attempt) == attempt < MaxRetries - 1

\* async_get_devices after client.get_devices()
\* (pyfinderbliss_wrapper.py:243-264): the devices are cached, bound to the
\* client and returned; after an exception the facade re-authenticates and
\* goes to the next attempt, or raises after the last one.
Api_GdRet(t) ==
    /\ pc[t] = "api_gd_ret"
    /\ IF res[t] = "ok"
       THEN /\ api' = [api EXCEPT !.cache = "server", !.bound = TRUE]
            /\ Return(t, "ok", "devices", loc[t])
       ELSE IF ReauthAfter(loc[t].attempt)
       THEN /\ EnterEnsure(t, <<"api_gd_loop">> \o stk[t],
                           [loc[t] EXCEPT !.attempt = @ + 1,
                                          !.nReauth = @ + 1,
                                          !.prevErr = res[t]])
            /\ UNCHANGED <<res, retv, api>>
       ELSE /\ Return(t, "FetchFailed", "-", loc[t])
            /\ api' = api
    /\ UNCHANGED <<procs, token, ws, lastVer, op, acked, lastSeen, sentIds>>

\* The guard of send_operation (client.py:247-248) on the client a cached
\* device holds, the one whose get_devices returned it
\* (pyfinderbliss_wrapper.py:248): `bound` says that client is the facade's
\* current one, `sock` is the current client's socket.
AnyClientConnected(bound, sock) == sock = "open"

DeviceClientConnected(bound, sock) == bound /\ sock = "open"

\* async_set_mode / async_set_temperature after
\* _async_ensure_authenticated (pyfinderbliss_wrapper.py:280-298): its error
\* propagates; the device is looked up in self._devices (ValueError when it is
\* not there); set_mode / set_setpoint builds the device object, which may
\* raise, and awaits send_operation on the client the device was bound to
\* (pyfinderbliss_wrapper.py:109, 175, 248).  A client that was replaced has
\* been closed (pyfinderbliss_wrapper.py:208), so its send_operation raises
\* as the current client's does without an open socket (client.py:247-248).
Api_SetSend(t) ==
    /\ pc[t] = "api_set_send"
    /\ \E known \in BOOLEAN, built \in BOOLEAN :
        IF res[t] # "ok"
        THEN /\ Return(t, res[t], "-", loc[t])
             /\ sentIds' = sentIds
        ELSE IF api.cache = "empty" \/ ~known
        THEN /\ Return(t, "DeviceNotFound", "-", loc[t])
             /\ sentIds' = sentIds
        ELSE IF ~built
        THEN /\ Return(t, "SetterFailed", "-", loc[t])
             /\ sentIds' = sentIds
        ELSE IF ~DeviceClientConnected(api.bound, ws)
        THEN /\ Return(t, "NotConnected", "-", loc[t])
             /\ sentIds' = sentIds
        ELSE /\ pc' = [pc EXCEPT ![t] = "so_wait"]
             /\ stk' = [stk EXCEPT ![t] = <<"api_set_ret">> \o @]
             /\ loc' = [loc EXCEPT ![t] =
                           SentActive([@ EXCEPT !.callReady = Ready,
                                                !.callVer = lastVer])]
             /\ sentIds' = Sent
             /\ UNCHANGED <<res, retv>>
    /\ UNCHANGED <<procs, token, ws, lastVer, op, acked, lastSeen, api>>

\* set_mode / set_setpoint after send_operation
\* (pyfinderbliss_wrapper.py:109-114, 175-179): the cached device takes the
\* settings string that was sent; an error of send_operation propagates.
Api_SetRet(t) ==
    /\ pc[t] = "api_set_ret"
    /\ api' = [api EXCEPT !.cache = IF res[t] = "ok" THEN "optimistic" ELSE @]
    /\ Return(t, res[t], "-", loc[t])
    /\ UNCHANGED <<procs, token, ws, lastVer, op, acked, lastSeen, sentIds>>

\* The steps of the client's coroutines.
ClientStep(t) ==
    \/ Login(t)
    \/ CW_Negotiate(t)
    \/ CW_Connect(t)
    \/ CW_Wait(t)
    \/ GD_AfterConnect(t)
    \/ GD_Recv(t)
    \/ SO_Wait(t)
    \/ SO_Refresh(t)

NextApi ==
    \/ \E t \in Tasks :
        \/ CallAsyncSetup(t)
        \/ CallAsyncGetDevices(t)
        \/ CallAsyncSet(t)
        \/ EA_AfterLogin(t)
        \/ EA_AfterRelogin(t)
        \/ Api_SetupRet(t)
        \/ Api_GdLoop(t)
        \/ Api_GdRet(t)
        \/ Api_SetSend(t)
        \/ Api_SetRet(t)
        \/ ClientStep(t)
    \/ HeartbeatLost

\* ----------------------------------------------------- device operations
\* Init for the device operations: a facade, and a device on the server.
InitDev ==
    \E sd \in ServerDevices :
        InitWith({1}, [NewApi EXCEPT !.devices.srv = sd])

\* How the send_operation of a setter ends (client.py:247-332): it returns,
\* with or without the refresh having received a payload, raises before
\* sending (not connected) or raises after sending (connection reset).
SendOutcomes == {"ok", "ok_refreshed", "NotConnected", "AckReset"}

\* async_get_devices, seen from the devices
\* (pyfinderbliss_wrapper.py:243-250, device_parser.py:3-10): the payload is
\* parsed and the device cached; parse_device's exception fails the fetch.
DevFetch(t) ==
    /\ t \in procs /\ pc[t] = "idle"
    /\ op' = [op EXCEPT ![t] = "async_get_devices"]
    /\ LET D == api.devices IN
       IF ParseFails(D.srv)
       THEN /\ res' = [res EXCEPT ![t] = "FetchFailed"]
            /\ api' = [api EXCEPT !.devices =
                          [D EXCEPT !.sent = NoObject, !.mode = "-",
                                    !.value = 0, !.key = "-", !.rep = FALSE,
                                    !.lastSync = D.srv.measures]]
       ELSE /\ res' = [res EXCEPT ![t] = "ok"]
            /\ api' = [api EXCEPT !.cache = "server", !.bound = TRUE,
                                  !.devices =
                          [D EXCEPT !.cache = BlissDevice(D.srv),
                                    !.sent = NoObject, !.mode = "-",
                                    !.value = 0, !.key = "-", !.nSet = 0,
                                    !.rep = FALSE,
                                    !.lastSync = D.srv.measures]]
    /\ UNCHANGED <<procs, token, ws, lastVer, pc, stk, retv, loc, acked,
                   lastSeen, sentIds>>

\* The device's readings change on the server.
DevServerChange ==
    /\ \E m \in MeasuresValues \ {api.devices.srv.measures} :
        api' = [api EXCEPT !.devices.srv.measures = m]
    /\ UNCHANGED <<procs, token, ws, lastVer, pc, stk, op, res, retv, loc,
                   acked, lastSeen, sentIds>>

\* The cached device after the setter's `await send_operation` ended as io
\* (pyfinderbliss_wrapper.py:109-114, 175-179): the assignments to
\* self.settings and self.mode / self.set_point follow the await, so an
\* exception of send_operation skips them.
CacheAfterEager(d, io, settings, mode, set_point) ==
    [d EXCEPT !.settings = settings, !.mode = mode, !.set_point = set_point]

CacheAfter(d, io, settings, mode, set_point) ==
    IF io \in {"ok", "ok_refreshed"}
    THEN [d EXCEPT !.settings = settings, !.mode = mode,
                   !.set_point = set_point]
    ELSE d

\* A setter of the cached device (pyfinderbliss_wrapper.py:36-114, 117-179)
\* that raises `err` before the device object is built ("-": none), and
\* otherwise sends the object with `settings`; `mode` is what it assigns to
\* self.mode, `set_point` to self.set_point.
Setter(t, D, err, settings, mode, set_point) ==
    \E io \in SendOutcomes :
        LET d == D.cache
            obj == DeviceObject(d, settings)
            call == [D EXCEPT !.nSet = @ + 1, !.key = "-"]
        IN
        IF err # "-"
        THEN /\ res' = [res EXCEPT ![t] = err]
             /\ api' = [api EXCEPT !.devices = [call EXCEPT !.sent = NoObject]]
        ELSE IF io = "NotConnected"
        THEN /\ res' = [res EXCEPT ![t] = io]
             /\ api' = [api EXCEPT !.devices = [call EXCEPT !.sent = NoObject]]
        ELSE /\ res' = [res EXCEPT ![t] =
                           IF io = "AckReset" THEN io ELSE "ok"]
             /\ api' = [api EXCEPT
                          !.cache = IF io = "AckReset" THEN @ ELSE "optimistic",
                          !.devices =
                              [call EXCEPT
                                  !.sent = obj,
                                  !.lastSync = IF io = "ok_refreshed"
                                               THEN D.srv.measures ELSE @,
                                  !.cache = CacheAfter(d, io, settings, mode,
                                                       set_point)]]

\* The modes callers give to set_mode.
ModeInputs == {"AUTO", "OFF", "ECO", "MANUAL", "manual", "BOOST"}

\* device.set_mode(mode) on the cached device
\* (pyfinderbliss_wrapper.py:36-114).
DevSetMode(t) ==
    /\ t \in procs /\ pc[t] = "idle"
    /\ api.devices.cache # NoDevice
    /\ api.devices.nSet < MaxSets
    /\ op' = [op EXCEPT ![t] = "set_mode"]
    /\ \E m \in ModeInputs :
        LET d == api.devices.cache
            mode == Upper(m)
        IN Setter(t, [api.devices EXCEPT
                         !.mode = m, !.value = 0,
                         !.rep = api.devices.mode = m
                                   /\ api.devices.sent # NoObject],
                  SetModeError(d, mode), SetModeSettings(d, mode), mode,
                  d.set_point)
    /\ UNCHANGED <<procs, token, ws, lastVer, pc, stk, retv, loc, acked,
                   lastSeen, sentIds>>

\* The values callers give to set_setpoint, in hundredths of a degree.
SetpointInputs == {2100, 2155}

\* device.set_setpoint(value) on the cached device
\* (pyfinderbliss_wrapper.py:117-179).
DevSetSetpoint(t) ==
    /\ t \in procs /\ pc[t] = "idle"
    /\ api.devices.cache # NoDevice
    /\ api.devices.nSet < MaxSets
    /\ op' = [op EXCEPT ![t] = "set_setpoint"]
    /\ \E v \in SetpointInputs :
        LET d == api.devices.cache IN
        Setter(t, [api.devices EXCEPT
                      !.value = v, !.mode = "-",
                      !.rep = api.devices.value = v
                                /\ api.devices.sent # NoObject],
               SetSetpointError(d), SetSetpointSettings(d, v), d.mode, v)
    /\ UNCHANGED <<procs, token, ws, lastVer, pc, stk, retv, loc, acked,
                   lastSeen, sentIds>>

\* The device_serial values callers give: the device's serial number, its
\* name, the parser's default for a missing serial number, another string.
SerialInputs == {"SN1", "Living", "Unknown", "other"}

\* The lookup of async_set_temperature / async_set_mode
\* (pyfinderbliss_wrapper.py:282-284, 294-296) in the devices of the last
\* fetch; no match raises ValueError.
DevFind(t) ==
    /\ t \in procs /\ pc[t] = "idle"
    /\ api.devices.cache # NoDevice
    /\ api.devices.nSet = 0
    /\ op' = [op EXCEPT ![t] = "find_device"]
    /\ \E serial \in SerialInputs \ {api.devices.key} :
        /\ res' = [res EXCEPT ![t] =
                      IF find_device_by_serial(api.devices.cache, serial)
                      THEN "ok" ELSE "DeviceNotFound"]
        /\ api' = [api EXCEPT !.devices.key = serial]
    /\ UNCHANGED <<procs, token, ws, lastVer, pc, stk, retv, loc, acked,
                   lastSeen, sentIds>>

NextDev ==
    \/ \E t \in Tasks :
        \/ DevFetch(t)
        \/ DevFind(t)
        \/ DevSetMode(t)
        \/ DevSetSetpoint(t)
    \/ DevServerChange

\* ------------------------------------------------------------- frame codec
\* Init for the frame codec: a value to encode, or the segments of a message
\* to decode.
InitCodec ==
    \/ \E x \in JsonValues :
        InitWith({1}, [NoApi EXCEPT !.codec.x = x])
    \/ \E segs \in SegmentLists :
        InitWith({1}, [NoApi EXCEPT !.codec.segs = segs])

\* The client writes the value as an outbound message (client.py:146, 164,
\* 207, 284).
CodecEncode ==
    /\ api.codec.x # NoValue /\ api.codec.text = <<>>
    /\ api' = [api EXCEPT !.codec.text = Encode(api.codec.x)]
    /\ UNCHANGED <<procs, token, ws, lastVer, pc, stk, op, res, retv, loc,
                   acked, lastSeen, sentIds>>

\* The server writes its segments as one text message.
CodecServerText ==
    /\ api.codec.segs # <<>> /\ api.codec.text = <<>>
    /\ api' = [api EXCEPT !.codec.text = Joined(api.codec.segs)]
    /\ UNCHANGED <<procs, token, ws, lastVer, pc, stk, op, res, retv, loc,
                   acked, lastSeen, sentIds>>

\* _handle_message on the text (client.py:98-126).
CodecDecode ==
    /\ api.codec.text # <<>> /\ ~api.codec.done
    /\ api' = [api EXCEPT !.codec.out = HandleText(api.codec.text),
                          !.codec.done = TRUE]
    /\ UNCHANGED <<procs, token, ws, lastVer, pc, stk, op, res, retv, loc,
                   acked, lastSeen, sentIds>>

NextCodec ==
    \/ CodecEncode
    \/ CodecServerText
    \/ CodecDecode

\* The frame codec on its own.
SpecCodec == InitCodec /\ [][NextCodec]_vars

\* One caller at a time.
Spec == Init /\ [][Next]_vars

\* Two callers on the shared client.
SpecConc == InitConc /\ [][Next]_vars

\* One caller of get_devices, the messages it receives recorded.
SpecSync == InitSync /\ [][NextSync]_vars

\* The steps of task t's coroutines inside a passive sync.  asyncio resumes a
\* coroutine whose await has completed, and every await of these steps
\* completes: the HTTP calls end or raise, and every receive is bounded by
\* wait_for (client.py:151, 213) or returns at once.
SyncProgress(t) ==
    \/ Login(t)
    \/ CW_Negotiate(t)
    \/ CW_Connect(t)
    \/ CW_Wait(t)
    \/ GD_AfterConnect(t)
    \/ GD_Recv(t)

\* Passive syncs of one task under that scheduling.
SpecFair ==
    Init /\ [][NextSync]_vars /\ \A t \in Tasks : WF_vars(SyncProgress(t))

\* One caller of the facade.
SpecApi == InitApi /\ [][NextApi]_vars

\* The device operations of one facade.
SpecDev == InitDev /\ [][NextDev]_vars

\* ------------------------------------------------------------------ claims
\* C1: the tracked server sync version never decreases, whatever frames the
\* server sends to get_devices and send_operation.
C1_VersionNeverDecreases == [][lastVer' >= lastVer]_vars

\* C2: every ACTIVE SyncRequest carries as clientSyncVersion the
\* serverSyncVersion of the most recent frame the client received that carried
\* one (0 if it received none).
C2_ActiveEchoesLastSeen ==
    \A t \in procs :
        loc[t].req.status = "ACTIVE" => loc[t].req.csv = loc[t].req.seen

\* C3: a send_operation that sent its ACTIVE request and returns has sent
\* exactly one passive SyncRequest, acknowledged or not.
C3_RefreshAfterEveryWrite ==
    \A t \in procs :
        (pc[t] = "idle" /\ op[t] = "send_operation" /\ res[t] = "ok"
            /\ loc[t].nActive = 1)
        => loc[t].nPassive = 1

\* C4: concurrent operations are serialized: no two tasks are inside an
\* exchange on the shared socket at the same time.
C4_ExchangesSerialized ==
    \A a \in procs, b \in procs :
        a # b => ~(AtReceive(a) /\ AtReceive(b))

\* C5: no SyncRequest, passive or active, is sent on a socket before the
\* empty-object acknowledgment was received on it.
C5_NoSyncBeforeInitAck ==
    \A t \in procs : loc[t].req.status # "-" => loc[t].req.acked

\* C6: when a step of the connect sequence has failed, the client holds no
\* open socket.
C6_FailedConnectIsDisconnected ==
    \A t \in procs :
        (pc[t] = "gd_after_connect" /\ res[t] # "ok") => ws # "open"

\* C7: send_operation called while the session is not Ready fails at once with
\* the not-connected error: no frame sent, tracked version unchanged.
C7_NotReadyFailsAtOnce ==
    \A t \in procs :
        (op[t] = "send_operation" /\ ~loc[t].callReady)
        => /\ pc[t] = "idle"
           /\ res[t] = "NotConnected"
           /\ loc[t].nActive = 0
           /\ lastVer = loc[t].callVer

\* C8: a get_devices whose receive timed out has failed with the sync-timeout
\* error, and the tracked version is the one from before the call.
C8_TimeoutKeepsVersion ==
    \A t \in procs :
        (/\ loc[t].rx.at = "gd_recv" /\ loc[t].rx.type = "TIMEOUT"
         /\ \/ pc[t] = "so_refresh"
            \/ pc[t] = "idle" /\ op[t] = "get_devices")
        => res[t] = "SyncTimeout" /\ lastVer = loc[t].callVer

\* A get_devices has timed out after the version had moved off 0.
C8_Witness ==
    \E t \in procs :
        /\ pc[t] = "idle" /\ op[t] = "get_devices"
        /\ loc[t].rx.at = "gd_recv" /\ loc[t].rx.type = "TIMEOUT"
        /\ res[t] = "SyncTimeout"
        /\ lastVer > 0

\* C9: a send_operation that saw no acknowledgment completes without raising
\* and returns something other than what the acknowledged case returns.
C9_UnackedIsReported ==
    \A t \in procs :
        (pc[t] = "idle" /\ op[t] = "send_operation" /\ res[t] = "ok"
            /\ loc[t].nActive = 1 /\ ~loc[t].new_version_received)
        => retv[t] # SendOperationResult(TRUE)

\* C10: connect_ws's acknowledgment wait ends when a closed socket is
\* observed: it is never still waiting after a CLOSED message.
C10_AckWaitEndsOnClosed ==
    \A t \in procs :
        pc[t] = "cw_wait"
        => ~(loc[t].rx.at = "cw_wait" /\ loc[t].rx.type = "CLOSED")

\* C11: async_get_devices makes at most MaxRetries attempts and returns the
\* devices of the first that succeeds; when it fails with the fetch-failed
\* error it has made exactly MaxRetries attempts with MaxRetries - 1
\* re-authentications, one after each failed attempt but the last.
C11_BoundedRetry ==
    \A t \in procs :
        op[t] = "async_get_devices"
        => /\ loc[t].nFetch <= MaxRetries
           /\ loc[t].nReauth <= loc[t].nFetch
           /\ loc[t].nReauth <= MaxRetries - 1
           /\ (pc[t] = "idle" /\ res[t] = "ok")
                => /\ retv[t] = "devices"
                   /\ api.cache = "server"
                   /\ loc[t].nFetch = loc[t].nReauth + 1
           /\ (pc[t] = "idle" /\ res[t] = "FetchFailed")
                => /\ loc[t].nFetch = MaxRetries
                   /\ loc[t].nReauth = MaxRetries - 1

\* Every attempt of an async_get_devices has failed.
C11_Witness ==
    \E t \in procs :
        /\ pc[t] = "idle" /\ op[t] = "async_get_devices"
        /\ res[t] = "FetchFailed"
        /\ loc[t].nFetch = MaxRetries
        /\ loc[t].nReauth = MaxRetries - 1

\* C12: an attempt that follows one failed by a transient transport error has
\* run the connect sequence before it sends its SyncRequest.
C12_RetryReconnects ==
    \A t \in procs :
        (op[t] = "async_get_devices" /\ pc[t] = "gd_recv"
            /\ loc[t].prevErr \in {"NegotiateFailed", "ConnectFailed",
                                   "InitTimeout", "ConnectionReset",
                                   "FetchReset"})
        => loc[t].entryWs # "open"

\* C13: once a login of a facade call has failed, the call makes no further
\* login attempt.
C13_NoLoginAfterFailure ==
    \A t \in procs : pc[t] = "login" => ~loc[t].loginFailed

\* C14: _async_ensure_authenticated performs no login when the client holds a
\* token and a Ready socket.
C14_NoLoginWhenAlive ==
    \A t \in procs :
        (pc[t] = "login" /\ stk[t] # <<>> /\ Head(stk[t]) = "ea_after_login")
        => ~loc[t].eaAlive

\* C15: all the InitRequests and SyncRequests of one facade carry the same
\* clientId.
C15_OneClientId == Cardinality(sentIds) <= 1

\* C16: after a set_mode / set_temperature whose refresh returned a payload,
\* the facade's cache holds the devices parsed from the server's payload.
C16_CacheRefreshed ==
    \A t \in procs :
        (pc[t] = "idle" /\ op[t] \in SetOps /\ res[t] = "ok"
            /\ loc[t].refreshed)
        => api.cache = "server"

\* C17: set_mode(MANUAL) on a BLISS2 device succeeds whenever its
\* send_operation does, and the settings it sends and caches have primary.mode
\* MANUAL and no manualTimer key.
C17_ManualModeSucceeds ==
    LET D == api.devices IN
    \A t \in procs :
        (op[t] = "set_mode" /\ Upper(D.mode) = "MANUAL"
            /\ D.cache.model = "BLISS2"
            /\ res[t] \notin {"NotConnected", "AckReset"})
        => /\ res[t] = "ok"
           /\ D.sent.settings.kind = "obj"
           /\ D.sent.settings.primary.kind = "obj"
           /\ D.sent.settings.primary.mode = "MANUAL"
           /\ ~D.sent.settings.timer
           /\ D.cache.settings = D.sent.settings

\* C18: set_setpoint(v) on any device succeeds whenever its send_operation
\* does, and sends and caches settings with primary.mode MANUAL,
\* primary.manualSetPoint the integer part of v x 10, no manualTimer key, and
\* every other key as it was.
C18_SetpointSettings ==
    [][LET D == api.devices
           E == api'.devices
           old == D.cache.settings
           new == E.sent.settings
       IN \A t \in procs :
            (op'[t] = "set_setpoint" /\ E.nSet = D.nSet + 1
                /\ res'[t] \notin {"NotConnected", "AckReset"})
            => /\ res'[t] = "ok"
               /\ new.kind = "obj" /\ new.primary.kind = "obj"
               /\ new.primary.mode = "MANUAL"
               /\ 10 * new.primary.msp <= E.value
               /\ E.value < 10 * new.primary.msp + 10
               /\ ~new.timer
               /\ old.kind = "obj" => new.other = old.other
               /\ (old.kind = "obj" /\ old.primary.kind = "obj")
                    => new.primary.extra = old.primary.extra
               /\ E.cache.settings = new]_vars

\* C19: the device object of every active sync carries the measures received
\* in the last passive sync and the device's handle, with status PENDING and
\* syncVersion 0.
C19_ObjectCarriesServerCopy ==
    [][LET D == api.devices
           E == api'.devices
       IN (E.nSet = D.nSet + 1 /\ E.sent # NoObject)
          => /\ E.sent.measures = D.lastSync
             /\ E.sent.handle = D.cache.handle
             /\ E.sent.status = "PENDING"
             /\ E.sent.syncVersion = 0]_vars

\* C20: set_mode with a mode outside Modes fails, sends no active sync and
\* leaves the cached device as it was, whatever the device's family.
C20_UnsupportedModeRejected ==
    [][LET D == api.devices
           E == api'.devices
       IN \A t \in procs :
            (op'[t] = "set_mode" /\ E.nSet = D.nSet + 1
                /\ Upper(E.mode) \notin Modes)
            => /\ res'[t] # "ok"
               /\ E.sent = NoObject
               /\ E.cache = D.cache]_vars

\* C21: set_mode and set_setpoint on a BLISS1 device fail, send no active sync
\* and leave the cached device as it was.
C21_FamilyAFailsClosed ==
    [][LET D == api.devices
           E == api'.devices
       IN \A t \in procs :
            (op'[t] \in {"set_mode", "set_setpoint"} /\ E.nSet = D.nSet + 1
                /\ D.cache.model = "BLISS1")
            => /\ res'[t] # "ok"
               /\ E.sent = NoObject
               /\ E.cache = D.cache]_vars

\* C25: parsing a device whose tag is known never raises, whatever its
\* settings string holds: the fetch that parses it succeeds.
C25_ParseNeverRaises ==
    \A t \in procs : op[t] = "async_get_devices" => res[t] = "ok"

\* C27: a timed-out receive does not end the acknowledgment wait while
\* attempts remain: a send_operation that returned without a version after a
\* timeout has used its last attempt.
C27_TimeoutKeepsWaiting ==
    \A t \in procs :
        (op[t] = "send_operation" /\ pc[t] = "idle" /\ res[t] = "ok"
            /\ ~loc[t].new_version_received /\ loc[t].rx.type = "TIMEOUT")
        => loc[t].i = DebugResponses - 1

\* C29: connect_ws makes no WebSocket connection attempt when the negotiation
\* response has no connectionId.
C29_NoConnectWithoutId ==
    \A t \in procs : pc[t] = "cw_connect" => loc[t].connection_id

\* C26: the lookup finds the cached device by its serial number, and finds a
\* device whose payload entry has no serial number by its name.
C26_LookupBySerialOrName ==
    LET D == api.devices IN
    \A t \in procs :
        op[t] = "find_device"
        => /\ (D.srv.serial # "absent" /\ D.key = D.srv.serial)
                => res[t] = "ok"
           /\ (D.srv.serial = "absent" /\ D.key = D.cache.name)
                => res[t] = "ok"

\* C22: a setter updates the cached settings and the changed field exactly
\* when its command succeeded: after a successful call they are the values
\* sent, and after a call that raised the cached device is as it was.
C22_CacheFollowsOutcome ==
    [][LET D == api.devices
           E == api'.devices
       IN \A t \in procs :
            (op'[t] \in {"set_mode", "set_setpoint"} /\ E.nSet = D.nSet + 1)
            => IF res'[t] = "ok"
               THEN /\ E.sent # NoObject
                    /\ E.cache.settings = E.sent.settings
                    /\ op'[t] = "set_mode" => E.cache.mode = Upper(E.mode)
                    /\ op'[t] = "set_setpoint" => E.cache.set_point = E.value
               ELSE E.cache = D.cache]_vars

\* A setter sent its device object, send_operation raised during the
\* acknowledgment wait, and the cached settings are not the ones sent.
C22_Witness ==
    \E t \in procs :
        /\ op[t] \in {"set_mode", "set_setpoint"}
        /\ res[t] = "AckReset"
        /\ api.devices.sent # NoObject
        /\ api.devices.cache.settings # api.devices.sent.settings

\* C23: a setter called twice in a row with the same argument sends the same
\* device object, and so the same settings string, the second time as the
\* first.
C23_Idempotent ==
    [][LET D == api.devices
           E == api'.devices
       IN (E.nSet = D.nSet + 1 /\ E.rep /\ E.sent # NoObject)
          => E.sent = D.sent]_vars

\* set_setpoint was repeated with the same value after a call that had sent
\* its object, and succeeded.
C23_Witness ==
    \E t \in procs :
        /\ op[t] = "set_setpoint" /\ res[t] = "ok"
        /\ api.devices.rep
        /\ api.devices.sent # NoObject
        /\ api.devices.sent.settings.primary.msp = TargetValue(api.devices.value)

C24_RoundTrip ==
    (api.codec.x # NoValue /\ api.codec.done)
        => api.codec.out = <<api.codec.x>>

\* A string holding the record separator was encoded and decoded to itself.
C24_Witness ==
    /\ api.codec.done
    /\ api.codec.x = JsonValue("str", <<"RS", "sp">>)
    /\ api.codec.out = <<api.codec.x>>

\* C30: the decoder returns, in their order, the values of the segments of a
\* text message that are not empty and are well formed; empty segments are
\* skipped and malformed ones dropped.
C30_DecodeKeepsWellFormed ==
    (api.codec.segs # <<>> /\ api.codec.done)
        => LET vals == [i \in 1..Len(api.codec.segs) |-> api.codec.segs[i].val]
           IN api.codec.out
                = SelectSeq(vals, LAMBDA v : v \notin {NoValue, BadValue})

\* A message with a malformed segment between two well-formed ones was
\* decoded to the two values.
C30_Witness ==
    /\ api.codec.done
    /\ Len(api.codec.segs) = 3
    /\ api.codec.segs[1].val = Num0
    /\ api.codec.segs[2].val = BadValue
    /\ api.codec.segs[3].val = JsonValue("str", <<"RS">>)
    /\ api.codec.out = <<Num0, JsonValue("str", <<"RS">>)>>

\* C31: for a family-B device and a target of AUTO, OFF, FROST or ECO, the
\* settings set_mode sends have the primary object {mode: target,
\* manualSetPoint: null} and nothing else in it, whatever primary held
\* before, and keep the other settings keys as they were.
C31_NonManualReplacesPrimary ==
    [][\A t \in procs :
        (/\ op'[t] = "set_mode"
         /\ api'.devices.nSet = api.devices.nSet + 1
         /\ api.devices.cache.model \in FamilyB
         /\ Upper(api'.devices.mode) \in NonManualModes
         /\ api'.devices.sent # NoObject)
        => LET old == api.devices.cache.settings
               new == api'.devices.sent.settings
           IN /\ new.kind = "obj"
              /\ new.primary.kind = "obj"
              /\ new.primary.mode = Upper(api'.devices.mode)
              /\ new.primary.msp = JsonNull
              /\ ~new.primary.extra
              /\ new.other = old.other]_vars

\* The first set_mode after a fetch sent OFF for a family-B device whose
\* server settings hold a primary with a set point and one more key, and
\* the primary sent holds neither.
C31_Witness ==
    \E t \in procs :
        /\ op[t] = "set_mode" /\ res[t] = "ok"
        /\ api.devices.nSet = 1 /\ api.devices.mode = "OFF"
        /\ api.devices.srv.tag \in FamilyB
        /\ api.devices.srv.settings.primary = Primary("obj", "AUTO", 200, TRUE)
        /\ api.devices.srv.settings.other
        /\ api.devices.sent # NoObject
        /\ api.devices.sent.settings.primary
             = Primary("obj", "OFF", JsonNull, FALSE)
        /\ api.devices.sent.settings.other

\* C32: for a family-B device whose settings hold a primary object, set_mode
\* to MANUAL builds its device object; the manualSetPoint sent is the one
\* primary held when that was not null, and otherwise has the value 180 when
\* the device has no available set point and ten times the set point when it
\* has one.
C32_ManualSetPoint ==
    [][\A t \in procs :
        (/\ op'[t] = "set_mode"
         /\ api'.devices.nSet = api.devices.nSet + 1
         /\ api.devices.cache.model \in FamilyB
         /\ Upper(api'.devices.mode) = "MANUAL"
         /\ api.devices.cache.settings.kind = "obj"
         /\ api.devices.cache.settings.primary.kind = "obj")
        => LET d == api.devices.cache
               old == d.settings.primary.msp
           IN /\ res'[t] \in {"ok", "NotConnected", "AckReset"}
              /\ api'.devices.sent # NoObject
                   => api'.devices.sent.settings.primary.msp
                        = IF old \notin {AbsentKey, JsonNull} THEN old
                          ELSE IF d.set_point = NotAvailable THEN 180
                          ELSE d.set_point \div 10]_vars

\* C33: the settings sent by set_mode and set_setpoint hold no manualTimer
\* key.
C33_NoManualTimerSent ==
    \A t \in procs :
        (op[t] \in {"set_mode", "set_setpoint"}
            /\ api.devices.sent # NoObject)
        => ~api.devices.sent.settings.timer

\* The first setter after a fetch of settings holding a manualTimer key sent
\* settings without it.
C33_Witness ==
    \E t \in procs :
        /\ op[t] \in {"set_mode", "set_setpoint"}
        /\ api.devices.nSet = 1
        /\ api.devices.srv.settings.timer
        /\ api.devices.sent # NoObject
        /\ ~api.devices.sent.settings.timer

\* C37: after a successful set_mode or set_setpoint on a family-B device the
\* cached mode is the primary.mode of the cached settings.
C37_CachedModeAgrees ==
    \A t \in procs :
        (/\ op[t] \in {"set_mode", "set_setpoint"} /\ res[t] = "ok"
         /\ api.devices.cache.model \in FamilyB)
        => api.devices.cache.mode = api.devices.cache.settings.primary.mode

\* C34: whenever the facade holds a cached device list, its devices are bound
\* to the facade's current client.
C34_DevicesBoundToCurrent ==
    api.cache # "empty" => api.bound

\* C39: a facade command whose ACTIVE SyncRequest has been sent runs on the
\* client whose passive sync returned the cached devices, and a command
\* issued while no fetch has succeeded sends nothing and fails.
C39_ActiveAfterPassive ==
    \A t \in procs :
        /\ (op[t] \in SetOps /\ pc[t] \in {"so_wait", "so_refresh"})
              => api.bound /\ api.cache # "empty"
        /\ (op[t] \in SetOps /\ api.cache = "empty")
              => /\ pc[t] \notin {"so_wait", "so_refresh", "api_set_ret"}
                 /\ pc[t] = "idle" => res[t] # "ok"

\* A facade command waits for its acknowledgment on the client that fetched
\* the devices, after an earlier client had been replaced.
C39_Witness ==
    \E t \in procs :
        /\ op[t] \in SetOps /\ pc[t] = "so_wait"
        /\ api.bound /\ api.cache = "server" /\ ws = "open"
        /\ api.clientId = 1

\* C38: a send_operation whose write was acknowledged and whose refresh
\* failed returns normally, and the tracked version is the acknowledged one.
C38_RefreshFailureSwallowed ==
    \A t \in procs :
        (/\ op[t] = "send_operation" /\ pc[t] = "idle"
         /\ loc[t].new_version_received /\ ~loc[t].refreshed)
        => /\ res[t] = "ok"
           /\ retv[t] = SendOperationResult(TRUE)
           /\ lastVer = loc[t].callVer

\* A send_operation returned after an acknowledgment carrying a new version
\* and a refresh that ended on a receive timeout.
C38_Witness ==
    \E t \in procs :
        /\ op[t] = "send_operation" /\ pc[t] = "idle" /\ res[t] = "ok"
        /\ loc[t].new_version_received /\ ~loc[t].refreshed
        /\ loc[t].rx.at = "gd_recv" /\ loc[t].rx.type = "TIMEOUT"
        /\ lastVer = loc[t].callVer /\ lastVer # 0

\* C35: the payload a passive sync returns, and whose version it tracks, is
\* never the late answer to a request of an earlier call.
C35_OwnAnswerReturned ==
    \A t \in procs :
        (op[t] = "get_devices" /\ pc[t] = "idle" /\ res[t] = "ok")
            => ~loc[t].late

\* C36: a get_devices that is receiving eventually stops receiving: it
\* returns the devices or fails.
C36_GetDevicesTerminates ==
    \A t \in Tasks :
        (t \in procs /\ pc[t] = "gd_recv") ~> (pc[t] # "gd_recv")

====
